------------------------------ MODULE Spec2Model ------------------------------
(***************************************************************************)
(* A model of fred_mcp/server.py: the MCP tool handlers of the FRED        *)
(* adapter, their helpers (get_fred, df_to_records,                        *)
(* format_series_search_results, save_to_file) and the three things they   *)
(* touch: the process environment, the upstream FRED client and the file   *)
(* system.  One tool call is one step: the handlers are synchronous and    *)
(* share no state but os.environ and the files they write.                 *)
(*                                                                         *)
(* Strings the code builds with f-strings are kept as records of their     *)
(* parts (kind, prefix, counts, rows), so that what a message says can be  *)
(* compared.  A pandas object is a record: isNone (the Python None),       *)
(* isSeries, the kind of its index, whether it carries a datetime64        *)
(* column, and its rows (row identities, in order).                        *)
(***************************************************************************)
EXTENDS Integers, Sequences, FiniteSets, TLC

\* Bounds of the model.
MaxRows == 2    \* most rows the upstream holds
MaxArg == 1     \* largest limit / offset a caller passes

VARIABLES
    environ,    \* os.environ["FRED_API_KEY"], or Unset
    upstream,   \* the table the FRED service holds (fixed during a run)
    files,      \* the file system: path -> file
    call,       \* the last tool call: operation and arguments
    result,     \* the CallToolResult it returned
    requests,   \* the upstream requests made during that call, in order
    saves,      \* the save_to_file calls made during that call, in order
    raised,     \* the exceptions raised during that call, in order
    fetched     \* what the call's primary upstream fetch returned

vars == <<environ, upstream, files, call, result, requests, saves, raised, fetched>>

------------------------------------------------------------------------------
\* Values

Unset == "<unset>"
PyNone == "None"
Keys == {"key-A", "key-B"}
EnvValues == {Unset, ""} \cup Keys

GoodPath == "/data/out.json"
BadPath == "/proc/ro/out.json"
Paths == {GoodPath, BadPath}
PathArgs == {PyNone} \cup Paths

ArgRange == 0..MaxArg

EmptyDict == [x \in {} |-> 0]

Min(a, b) == IF a < b THEN a ELSE b
Max(a, b) == IF a > b THEN a ELSE b

\* Python truthiness of an Optional[str]
Truthy(s) == s \notin {PyNone, ""}

\* ---- pandas objects
NoneDF == [isNone |-> TRUE, isSeries |-> FALSE, index |-> "range",
           dateCol |-> FALSE, rows |-> <<>>]

Frame(index, dateCol, n) ==
    [isNone |-> FALSE, isSeries |-> FALSE, index |-> index,
     dateCol |-> dateCol, rows |-> [i \in 1..n |-> i]]

\* The tables the upstream may hold: None, the empty frame, and the frames of
\* 1..MaxRows rows under either kind of index, with or without a date column.
Tables == {NoneDF, Frame("range", FALSE, 0)} \cup
          { Frame(ix, dc, n) : ix \in {"range", "datetime"}, dc \in BOOLEAN, n \in 1..MaxRows }

\* df.empty, len(df)
IsEmpty(df) == df.rows = <<>>
PyLen(df) == Len(df.rows)

\* a datetime64 cell, and what .dt.strftime('%Y-%m-%d') makes of it
Timestamp(r) == [type |-> "Timestamp", day |-> r]
strftime(ts) == [type |-> "str", ymd |-> ts.day]

\* ---- exceptions: type and str(e)
ConfigMsg == "FRED_API_KEY environment variable not set. Please set it to use this server."
Exc(type, msg) == [type |-> type, msg |-> msg]


\* ---- cells of a table: a plain value, a datetime64 value, a formatted date
Plain(r) == [type |-> "int", val |-> r]
IsTimestamp(v) == v.type = "Timestamp"

------------------------------------------------------------------------------
\* Helpers of server.py

\* Variant: only an unset variable is refused, an empty one is used as the key.
get_fred_accepts_empty(env) ==
    IF env = Unset
    THEN [raised |-> TRUE, exc |-> Exc("ValueError", ConfigMsg), key |-> ""]
    ELSE [raised |-> FALSE, exc |-> Exc("", ""), key |-> env]

\* Variant: a client built once is kept; later calls reuse the key it was built with.
get_fred_cached(env) ==
    IF requests # <<>>
    THEN [raised |-> FALSE, exc |-> Exc("", ""), key |-> requests[1].api_key]
    ELSE IF env \in {Unset, ""}
    THEN [raised |-> TRUE, exc |-> Exc("ValueError", ConfigMsg), key |-> ""]
    ELSE [raised |-> FALSE, exc |-> Exc("", ""), key |-> env]

\* get_fred: the key read from the environment at the time of the call.
get_fred(env) ==
    IF env \in {Unset, ""}
    THEN [raised |-> TRUE, exc |-> Exc("ValueError", ConfigMsg), key |-> ""]
    ELSE [raised |-> FALSE, exc |-> Exc("", ""), key |-> env]

\* seq[start:stop] as Python computes it (a negative bound counts from the
\* end, both bounds are clamped to the length); positions are 0-based.
PySlice(seq, start, stop) ==
    LET n == Len(seq)
        lo == IF start < 0 THEN Max(start + n, 0) ELSE Min(start, n)
        hi == IF stop < 0 THEN Max(stop + n, 0) ELSE Min(stop, n)
    IN IF lo < hi THEN [i \in 1..(hi - lo) |-> seq[lo + i]] ELSE <<>>

\* df_to_records: the rows as dicts.  The index is materialised as a column
\* `date`, and the datetime64 columns formatted, only under a DatetimeIndex.
df_to_records(df) ==
    IF df.isNone \/ IsEmpty(df) THEN <<>>
    ELSE LET col == IF df.isSeries THEN "value" ELSE "id"
             dateIndex == df.index = "datetime"
         IN [i \in 1..Len(df.rows) |->
               LET r == df.rows[i]
                   idx == IF dateIndex
                          THEN [date |-> strftime(Timestamp(r))]
                          ELSE EmptyDict
                   dc == IF df.dateCol
                         THEN [last_updated |-> IF dateIndex
                                                THEN strftime(Timestamp(r))
                                                ELSE Timestamp(r)]
                         ELSE EmptyDict
               IN idx @@ [c \in {col} |-> Plain(r)] @@ dc]

\* json.dump accepts the records: no datetime64 value is left in them.
JsonSerializable(records) ==
    \A i \in 1..Len(records) : \A k \in DOMAIN records[i] : ~IsTimestamp(records[i][k])

\* Variant: the page is df.iloc[offset:], the limit is not applied.
format_series_search_results_no_limit(df, limit, offset) ==
    IF df.isNone \/ IsEmpty(df) THEN [kind |-> "NoFound", noun |-> "series"]
    ELSE LET df_page == PySlice(df.rows, offset, Len(df.rows))
         IN [kind |-> "FoundTable", noun |-> "series", total |-> PyLen(df),
             shown |-> Len(df_page), table |-> df_page]

\* format_series_search_results
format_series_search_results(df, limit, offset) ==
    IF df.isNone \/ IsEmpty(df) THEN [kind |-> "NoFound", noun |-> "series"]
    ELSE LET df_page == PySlice(df.rows, offset, offset + limit)
         IN [kind |-> "FoundTable", noun |-> "series", total |-> PyLen(df),
             shown |-> Len(df_page), table |-> df_page]

\* The file system: whether makedirs and open(path, 'w') succeed.
Writable(path) == path = GoodPath
NoFile == [exists |-> FALSE, valid |-> FALSE, json |-> <<>>]

\* save_to_file: makedirs, df_to_records, open for writing, json.dump, message.
\* json.dump raising leaves the opened file truncated and partly written.
save_to_file(data, file_path, series_id, fs) ==
    LET records == df_to_records(data)
    IN IF ~Writable(file_path)
       THEN [raised |-> TRUE, exc |-> Exc("OSError", "Permission denied"),
             msg |-> EmptyDict, files |-> fs,
             save |-> [path |-> file_path, opened |-> FALSE, dumped |-> FALSE]]
       ELSE IF ~JsonSerializable(records)
       THEN [raised |-> TRUE,
             exc |-> Exc("TypeError", "Object of type Timestamp is not JSON serializable"),
             msg |-> EmptyDict,
             files |-> [fs EXCEPT ![file_path] =
                           [exists |-> TRUE, valid |-> FALSE, json |-> <<>>]],
             save |-> [path |-> file_path, opened |-> TRUE, dumped |-> FALSE]]
       ELSE [raised |-> FALSE, exc |-> Exc("", ""),
             msg |-> [kind |-> "Saved", id |-> series_id, file_path |-> file_path,
                      count |-> Len(records)],
             files |-> [fs EXCEPT ![file_path] =
                           [exists |-> TRUE, valid |-> TRUE, json |-> records]],
             save |-> [path |-> file_path, opened |-> TRUE, dumped |-> TRUE]]

------------------------------------------------------------------------------
\* The upstream client (fredapi.Fred), called with the key get_fred returned.
\* A call either raises or answers from the table the service holds; limit and
\* offset passed to it select rows offset .. offset+limit-1 of that table, and
\* a limit of 0 is the client's "no limit".

UpstreamRows(params) ==
    IF "limit" \in DOMAIN params
    THEN LET off == IF "offset" \in DOMAIN params THEN params.offset ELSE 0
         IN IF params.limit = 0
            THEN PySlice(upstream.rows, off, Len(upstream.rows))
            ELSE PySlice(upstream.rows, off, off + params.limit)
    ELSE upstream.rows

fred_call(method, key, params, up) ==
    LET request == [method |-> method, api_key |-> key, params |-> params]
    IN IF up = "raise"
       THEN [raised |-> TRUE, exc |-> Exc("ValueError", "Bad Request."),
             df |-> NoneDF, request |-> request]
       ELSE [raised |-> FALSE, exc |-> Exc("", ""),
             df |-> IF upstream.isNone THEN NoneDF
                    ELSE [upstream EXCEPT !.rows = UpstreamRows(params)],
             request |-> request]

\* fred.get_series answers with a pandas Series
AsSeries(df) == IF df.isNone THEN df ELSE [df EXCEPT !.isSeries = TRUE, !.dateCol = FALSE]

\* fred.get_series_info: raises, or answers None, an empty Series or the metadata
InfoSeries ==
    [isNone |-> FALSE, isSeries |-> TRUE, index |-> "object", dateCol |-> FALSE,
     rows |-> <<1, 2>>]
fred_info(key, series_id, up) ==
    LET request == [method |-> "get_series_info", api_key |-> key, params |-> EmptyDict]
    IN CASE up = "raise" ->
              [raised |-> TRUE, exc |-> Exc("ValueError", "Bad Request."),
               info |-> NoneDF, request |-> request]
         [] up = "none" ->
              [raised |-> FALSE, exc |-> Exc("", ""), info |-> NoneDF, request |-> request]
         [] up = "empty" ->
              [raised |-> FALSE, exc |-> Exc("", ""),
               info |-> [InfoSeries EXCEPT !.rows = <<>>], request |-> request]
         [] OTHER ->
              [raised |-> FALSE, exc |-> Exc("", ""), info |-> InfoSeries,
               request |-> request]


------------------------------------------------------------------------------
\* The tool handlers

\* CallToolResult(content=[text], structuredContent=...): isError defaults to False
Result(text, structured) ==
    [isError |-> FALSE, text |-> text, structured |-> structured]

\* Variant: the except clause leaves isError at its default.
ErrorResult_no_flag(prefix, e) ==
    [isError |-> FALSE,
     text |-> [kind |-> "Error", prefix |-> prefix, msg |-> e.msg],
     structured |-> [error |-> e.msg]]

\* The except clause of a handler
ErrorResult(prefix, e) ==
    [isError |-> TRUE,
     text |-> [kind |-> "Error", prefix |-> prefix, msg |-> e.msg],
     structured |-> [error |-> e.msg]]

Raise(at, e) == [at |-> at, type |-> e.type, msg |-> e.msg]
\* The primary fetch of a call: not reached or raised, a table, or (get_source)
\* an answer that is no table
NotFetched == [ok |-> FALSE, table |-> FALSE, df |-> NoneDF]
Fetched(df) == [ok |-> TRUE, table |-> TRUE, df |-> df]
FetchedInfo == [ok |-> TRUE, table |-> FALSE, df |-> NoneDF]

\* What one run of a handler did
Out(res, reqs, svs, rs, f, fs) ==
    [result |-> res, requests |-> reqs, saves |-> svs, raised |-> rs,
     fetched |-> f, files |-> fs]

\* The body shared by search_series, get_category_series, get_releases and
\* get_release_series: authenticate, fetch, then export or preview.
ListingTool(prefix, method, params, id, limit, offset, file_path, up) ==
    LET a == get_fred(environ)
    IN IF a.raised
       THEN Out(ErrorResult(prefix, a.exc), <<>>, <<>>,
                <<Raise("get_fred", a.exc)>>, NotFetched, files)
       ELSE
       LET f == fred_call(method, a.key, params, up)
       IN IF f.raised
          THEN Out(ErrorResult(prefix, f.exc), <<f.request>>, <<>>,
                   <<Raise("fetch", f.exc)>>, NotFetched, files)
          ELSE
          LET df == f.df
              records == df_to_records(df)
          IN IF Truthy(file_path)
             THEN LET s == save_to_file(df, file_path, id, files)
                  IN IF s.raised
                     THEN Out(ErrorResult(prefix, s.exc), <<f.request>>, <<s.save>>,
                              <<Raise("save", s.exc)>>, Fetched(df), s.files)
                     ELSE Out(Result(s.msg, [message |-> s.msg, file_path |-> file_path,
                                             count |-> Len(records)]),
                              <<f.request>>, <<s.save>>, <<>>, Fetched(df), s.files)
             ELSE Out(Result(format_series_search_results(df, limit, offset),
                             [results |-> records]),
                      <<f.request>>, <<>>, <<>>, Fetched(df), files)

\* get_series_info
SeriesInfoTool(series_id, up) ==
    LET prefix == "Error getting series info: "
        a == get_fred(environ)
    IN IF a.raised
       THEN Out(ErrorResult(prefix, a.exc), <<>>, <<>>,
                <<Raise("get_fred", a.exc)>>, NotFetched, files)
       ELSE
       LET f == fred_info(a.key, series_id, up)
       IN IF f.raised
          THEN Out(ErrorResult(prefix, f.exc), <<f.request>>, <<>>,
                   <<Raise("fetch", f.exc)>>, NotFetched, files)
          ELSE IF f.info.isNone \/ IsEmpty(f.info)
          THEN LET msg == "No info found for series GDP"
               IN Out(Result([kind |-> "NoInfo", id |-> series_id, msg |-> msg],
                             [error |-> msg]), <<f.request>>, <<>>, <<>>,
                      Fetched(f.info), files)
          ELSE LET records == df_to_records(f.info)
               IN Out(Result([kind |-> "Metadata", id |-> series_id,
                              table |-> f.info.rows],
                             IF records # <<>> THEN records[1] ELSE EmptyDict),
                      <<f.request>>, <<>>, <<>>, Fetched(f.info), files)

\* The heading of the get_series_data preview: a second upstream call, whose
\* failure the inner try/except turns into the bare series id.
TitleHeader(key, series_id, up2) ==
    LET t == fred_info(key, series_id, up2)
    IN IF t.raised
       THEN [request |-> t.request, raised |-> <<Raise("title", t.exc)>>,
             header |-> [fallback |-> TRUE, title |-> series_id, units |-> ""]]
       ELSE IF t.info.isNone
       THEN [request |-> t.request,
             raised |-> <<Raise("title", Exc("AttributeError",
                                   "'NoneType' object has no attribute 'get'"))>>,
             header |-> [fallback |-> TRUE, title |-> series_id, units |-> ""]]
       ELSE IF IsEmpty(t.info)
       THEN [request |-> t.request, raised |-> <<>>,
             header |-> [fallback |-> FALSE, title |-> series_id, units |-> ""]]
       ELSE [request |-> t.request, raised |-> <<>>,
             header |-> [fallback |-> FALSE, title |-> "Gross Domestic Product",
                         units |-> "Billions of Dollars"]]

\* get_series_data
SeriesDataTool(series_id, limit, offset, file_path, up, up2) ==
    LET prefix == "Error getting series data: "
        a == get_fred(environ)
    IN IF a.raised
       THEN Out(ErrorResult(prefix, a.exc), <<>>, <<>>,
                <<Raise("get_fred", a.exc)>>, NotFetched, files)
       ELSE
       LET f == fred_call("get_series", a.key, EmptyDict, up)
       IN IF f.raised
          THEN Out(ErrorResult(prefix, f.exc), <<f.request>>, <<>>,
                   <<Raise("fetch", f.exc)>>, NotFetched, files)
          ELSE
          LET data == AsSeries(f.df)
          IN IF data.isNone \/ IsEmpty(data)
             THEN LET msg == "No data found for series GDP"
                  IN Out(Result([kind |-> "NoData", id |-> series_id, msg |-> msg],
                                [error |-> msg]), <<f.request>>, <<>>, <<>>,
                         Fetched(data), files)
             ELSE
             LET records == df_to_records(data)
             IN IF Truthy(file_path)
                THEN LET s == save_to_file(data, file_path, series_id, files)
                     IN IF s.raised
                        THEN Out(ErrorResult(prefix, s.exc), <<f.request>>, <<s.save>>,
                                 <<Raise("save", s.exc)>>, Fetched(data), s.files)
                        ELSE Out(Result(s.msg, [message |-> s.msg,
                                                file_path |-> file_path,
                                                count |-> Len(records)]),
                                 <<f.request>>, <<s.save>>, <<>>, Fetched(data), s.files)
                ELSE LET data_page == PySlice(data.rows, offset, offset + limit)
                         h == TitleHeader(a.key, series_id, up2)
                     IN Out(Result([kind |-> "DataTable", header |-> h.header,
                                    shown |-> Len(data_page), total |-> PyLen(data),
                                    table |-> data_page],
                                   [data |-> PySlice(records, offset, offset + limit)]),
                            <<f.request, h.request>>, <<>>, h.raised, Fetched(data), files)

\* get_sources
SourcesTool(file_path, up) ==
    LET prefix == "Error getting sources: "
        a == get_fred(environ)
    IN IF a.raised
       THEN Out(ErrorResult(prefix, a.exc), <<>>, <<>>,
                <<Raise("get_fred", a.exc)>>, NotFetched, files)
       ELSE
       LET f == fred_call("get_sources", a.key, EmptyDict, up)
       IN IF f.raised
          THEN Out(ErrorResult(prefix, f.exc), <<f.request>>, <<>>,
                   <<Raise("fetch", f.exc)>>, NotFetched, files)
          ELSE
          LET df == f.df
              records == df_to_records(df)
          IN IF Truthy(file_path)
             THEN LET s == save_to_file(df, file_path, "sources", files)
                  IN IF s.raised
                     THEN Out(ErrorResult(prefix, s.exc), <<f.request>>, <<s.save>>,
                              <<Raise("save", s.exc)>>, Fetched(df), s.files)
                     ELSE Out(Result(s.msg, [message |-> s.msg, file_path |-> file_path,
                                             count |-> Len(records)]),
                              <<f.request>>, <<s.save>>, <<>>, Fetched(df), s.files)
             ELSE IF df.isNone
             THEN LET e == Exc("TypeError", "object of type 'NoneType' has no len()")
                  IN Out(ErrorResult(prefix, e), <<f.request>>, <<>>,
                         <<Raise("len", e)>>, Fetched(df), files)
             ELSE Out(Result([kind |-> "FoundAll", noun |-> "sources",
                              total |-> PyLen(df), table |-> df.rows],
                             [results |-> records]),
                      <<f.request>>, <<>>, <<>>, Fetched(df), files)

\* get_source: the upstream answers a dict, a list or something else
SourceDict == [id |-> 1, name |-> "Board of Governors of the Federal Reserve System"]
SourceTool(source_id, up) ==
    LET prefix == "Error getting source: "
        a == get_fred(environ)
        request == [method |-> "get_source", api_key |-> a.key, params |-> EmptyDict]
    IN IF a.raised
       THEN Out(ErrorResult(prefix, a.exc), <<>>, <<>>,
                <<Raise("get_fred", a.exc)>>, NotFetched, files)
       ELSE IF up = "raise"
       THEN LET e == Exc("ValueError", "Bad Request.")
            IN Out(ErrorResult(prefix, e), <<request>>, <<>>,
                   <<Raise("fetch", e)>>, NotFetched, files)
       ELSE LET isDict == up \in {"dict", "list"}
                text == [kind |-> "Source", id |-> source_id, info |-> up]
            IN Out(Result(text, IF isDict THEN SourceDict ELSE [details |-> up]),
                   <<request>>, <<>>, <<>>, FetchedInfo, files)

\* get_category_details, get_category_children, search_related_tags: fixed
\* informational results, no get_fred, no upstream call
StubTool(text, structured) ==
    Out(Result(text, structured), <<>>, <<>>, <<>>, NotFetched, files)


------------------------------------------------------------------------------
\* The state machine: the environment changes, and tools are called

SeriesId == "GDP"
UpOutcomes == {"ok", "raise"}
InfoOutcomes == {"raise", "none", "empty", "info"}
SourceOutcomes == {"raise", "dict", "list", "emptylist", "other"}

NoCall == [op |-> "none"]

Init ==
    /\ environ = Unset
    /\ upstream \in Tables
    /\ files = [p \in Paths |-> NoFile]
    /\ call = NoCall
    /\ result = Result([kind |-> "none"], EmptyDict)
    /\ requests = <<>>
    /\ saves = <<>>
    /\ raised = <<>>
    /\ fetched = NotFetched

\* One tool call, start to return
Invoke(c, out) ==
    /\ call' = c
    /\ result' = out.result
    /\ requests' = out.requests
    /\ saves' = out.saves
    /\ raised' = out.raised
    /\ fetched' = out.fetched
    /\ files' = out.files
    /\ UNCHANGED <<environ, upstream>>

\* The operator of the process sets, rotates or removes FRED_API_KEY
SetEnv ==
    /\ \E v \in EnvValues \ {environ} : environ' = v
    /\ UNCHANGED <<upstream, files, call, result, requests, saves, raised, fetched>>

search_series ==
    \E limit \in ArgRange, offset \in ArgRange, file_path \in PathArgs :
      \E out \in { ListingTool("Error searching series: ", "search", EmptyDict, "gdp",
                               limit, offset, file_path, up) : up \in UpOutcomes } :
        Invoke([op |-> "search_series", limit |-> limit, offset |-> offset,
                file_path |-> file_path], out)

get_series_info ==
    \E out \in { SeriesInfoTool(SeriesId, up) : up \in InfoOutcomes } :
        Invoke([op |-> "get_series_info"], out)

get_series_data ==
    \E limit \in ArgRange, offset \in ArgRange, file_path \in PathArgs :
      \E out \in { SeriesDataTool(SeriesId, limit, offset, file_path, up, up2) :
                      up \in UpOutcomes, up2 \in InfoOutcomes } :
        Invoke([op |-> "get_series_data", limit |-> limit, offset |-> offset,
                file_path |-> file_path], out)

get_category_details ==
    Invoke([op |-> "get_category_details"],
           StubTool([kind |-> "Stub", tool |-> "get_category_details"],
                    [message |-> "To explore category 125, please use get_category_series or get_category_children.",
                     category_id |-> 125, status |-> "not_implemented"]))

get_category_children ==
    Invoke([op |-> "get_category_children"],
           StubTool([kind |-> "Stub", tool |-> "get_category_children"],
                    [message |-> "Tool get_category_children is not currently available via this wrapper.",
                     category_id |-> 125, status |-> "not_implemented"]))

get_category_series ==
    \E limit \in ArgRange, offset \in ArgRange, file_path \in PathArgs :
      \E out \in { ListingTool("Error getting category series: ", "search_by_category",
                               [limit |-> limit], "category_125",
                               limit, offset, file_path, up) : up \in UpOutcomes } :
        Invoke([op |-> "get_category_series", limit |-> limit, offset |-> offset,
                file_path |-> file_path], out)

get_releases ==
    \E limit \in ArgRange, offset \in ArgRange, file_path \in PathArgs :
      \E out \in { ListingTool("Error getting releases: ", "get_releases",
                               [limit |-> limit, offset |-> offset], "releases",
                               limit, offset, file_path, up) : up \in UpOutcomes } :
        Invoke([op |-> "get_releases", limit |-> limit, offset |-> offset,
                file_path |-> file_path], out)

get_release_series ==
    \E limit \in ArgRange, offset \in ArgRange, file_path \in PathArgs :
      \E out \in { ListingTool("Error getting release series: ", "get_release_series",
                               [limit |-> limit, offset |-> offset], "release_10",
                               limit, offset, file_path, up) : up \in UpOutcomes } :
        Invoke([op |-> "get_release_series", limit |-> limit, offset |-> offset,
                file_path |-> file_path], out)

get_sources ==
    \E file_path \in PathArgs :
      \E out \in { SourcesTool(file_path, up) : up \in UpOutcomes } :
        Invoke([op |-> "get_sources", file_path |-> file_path], out)

get_source ==
    \E out \in { SourceTool(1, up) : up \in SourceOutcomes } :
        Invoke([op |-> "get_source"], out)

search_related_tags ==
    Invoke([op |-> "search_related_tags"],
           StubTool([kind |-> "Stub", tool |-> "search_related_tags"],
                    [message |-> "Tool search_related_tags is not fully implemented in this version.",
                     tag_names |-> "usa;monthly", status |-> "not_implemented"]))

Next ==
    \/ SetEnv
    \/ search_series
    \/ get_series_info
    \/ get_series_data
    \/ get_category_details
    \/ get_category_children
    \/ get_category_series
    \/ get_releases
    \/ get_release_series
    \/ get_sources
    \/ get_source
    \/ search_related_tags

Spec == Init /\ [][Next]_vars

\* The tools alone, under a configured credential that does not change, over
\* every table the upstream may hold.
InitTools ==
    /\ environ = "key-A"
    /\ upstream \in Tables
    /\ files = [p \in Paths |-> NoFile]
    /\ call = NoCall
    /\ result = Result([kind |-> "none"], EmptyDict)
    /\ requests = <<>>
    /\ saves = <<>>
    /\ raised = <<>>
    /\ fetched = NotFetched

NextTools ==
    \/ search_series
    \/ get_series_info
    \/ get_series_data
    \/ get_category_details
    \/ get_category_children
    \/ get_category_series
    \/ get_releases
    \/ get_release_series
    \/ get_sources
    \/ get_source
    \/ search_related_tags

SpecTools == InitTools /\ [][NextTools]_vars

\* The tools under a credential that is set, rotated and removed between calls,
\* over three upstream tables: None, one row that json.dump refuses (a date
\* column under a plain index) and one row that it accepts.
CredTables == {NoneDF, Frame("range", TRUE, 1), Frame("datetime", FALSE, 1)}

InitCred ==
    /\ environ = Unset
    /\ upstream \in CredTables
    /\ files = [p \in Paths |-> NoFile]
    /\ call = NoCall
    /\ result = Result([kind |-> "none"], EmptyDict)
    /\ requests = <<>>
    /\ saves = <<>>
    /\ raised = <<>>
    /\ fetched = NotFetched

SpecCred == InitCred /\ [][Next]_vars


------------------------------------------------------------------------------
\* Properties

StubOps == {"get_category_details", "get_category_children", "search_related_tags"}
PagedOps == {"search_series", "get_series_data", "get_category_series",
             "get_releases", "get_release_series"}
PathOps == PagedOps \cup {"get_sources"}
AuthOps == PathOps \cup {"get_series_info", "get_source"}
NoCredential == {Unset, ""}

Called == call.op # "none"
PathSupplied == call.op \in PathOps /\ Truthy(call.file_path)

\* The result is the error envelope carrying message m
IsErrorEnvelope(r, m) ==
    /\ r.isError
    /\ r.text.kind = "Error"
    /\ r.text.msg = m
    /\ DOMAIN r.structured = {"error"}
    /\ r.structured.error = m

\* C1: the returned envelope has isError = true if and only if its structured
\* payload contains an `error` field, for every operation and outcome.
C1_ErrorFlagIffErrorField ==
    Called => (result.isError <=> "error" \in DOMAIN result.structured)

\* C2 (as claimed): every operation called while FRED_API_KEY is absent or
\* empty returns isError = true with the configuration message and makes no
\* upstream call and no file write.  A step that leaves environ alone is a
\* tool call made under environ.
C2_MissingCredentialFailsEveryTool ==
    [][(environ' = environ /\ environ \in NoCredential) =>
          /\ IsErrorEnvelope(result', ConfigMsg)
          /\ requests' = <<>>
          /\ saves' = <<>>
          /\ files' = files]_vars

\* C2 (amended): the operations that authenticate fail so; the three stubs,
\* which never authenticate, return their informational envelope, isError =
\* false; in both cases there is no upstream call and no file write.
C2_MissingCredentialFailsAuthenticatedTools ==
    [][(environ' = environ /\ environ \in NoCredential) =>
          /\ call'.op \in AuthOps => IsErrorEnvelope(result', ConfigMsg)
          /\ call'.op \in StubOps =>
                (~result'.isError /\ result'.structured.status = "not_implemented")
          /\ call'.op \in AuthOps \cup StubOps
          /\ requests' = <<>>
          /\ saves' = <<>>
          /\ files' = files]_vars

\* C2, reached: an export was asked for while the variable was empty, and nothing was
\* requested or written.
C2_Witness ==
    /\ environ = ""
    /\ call.op = "get_series_data"
    /\ call.file_path = GoodPath
    /\ IsErrorEnvelope(result, ConfigMsg)
    /\ raised # <<>> /\ raised[1].at = "get_fred"
    /\ requests = <<>>
    /\ saves = <<>>
    /\ ~files[GoodPath].exists

\* C3: once the upstream fetch has succeeded, the export step is taken if and
\* only if a destination path was supplied, whatever the fetched result holds;
\* otherwise the preview step is taken and no file is written.
C3_ExportIffPathSupplied ==
    (Called /\ fetched.ok) =>
        IF PathSupplied
        THEN saves # <<>> /\ saves[1].path = call.file_path
        ELSE saves = <<>> /\ result.text.kind # "Saved"

\* C4: two exports by the same operation to the same path, over the same
\* upstream data, differing at most in offset and limit, write the same records
\* and report the same count, the number of records in the file.
C4_ExportIgnoresPagination ==
    [][(/\ result.text.kind = "Saved"
        /\ result'.text.kind = "Saved"
        /\ call'.op = call.op
        /\ call'.file_path = call.file_path) =>
          /\ files'[call'.file_path].json = files[call.file_path].json
          /\ result'.structured.count = result.structured.count
          /\ result'.structured.count = Len(files'[call'.file_path].json)]_vars

\* C5: in a preview, the structured payload holds as many rows as the display
\* text reports as shown.
C5_StructuredRowsEqualShown ==
    (call.op \in PagedOps /\ ~result.isError) =>
        /\ result.text.kind = "FoundTable" =>
              Len(result.structured.results) = result.text.shown
        /\ result.text.kind = "DataTable" =>
              Len(result.structured.data) = result.text.shown

\* C6 (as claimed): whenever anything raised during a call, the call returned
\* the error envelope carrying the message of what raised.
C6_EveryFailureYieldsErrorEnvelope ==
    raised # <<>> => IsErrorEnvelope(result, raised[Len(raised)].msg)

\* C6 (amended): a failure of authentication, of the operation's own fetch, of
\* the export or of the rendering yields the error envelope with its message; a
\* failure of the title lookup of get_series_data is swallowed: the preview is
\* returned, not an error, headed by the series id.
C6_PrimaryFailuresYieldErrorEnvelope ==
    raised # <<>> =>
        IF raised[1].at = "title"
        THEN /\ call.op = "get_series_data"
             /\ ~result.isError
             /\ result.text.kind = "DataTable"
             /\ result.text.header.fallback
             /\ result.text.header.title = SeriesId
             /\ "error" \notin DOMAIN result.structured
        ELSE /\ Len(raised) = 1
             /\ raised[1].at \in {"get_fred", "fetch", "save", "len"}
             /\ IsErrorEnvelope(result, raised[1].msg)

\* C6, reached: json.dump refused the records of an export: the call returned the error
\* envelope, and the file it had opened is left behind unfinished.
C6_Witness ==
    /\ raised # <<>>
    /\ raised[1].at = "save"
    /\ raised[1].type = "TypeError"
    /\ IsErrorEnvelope(result, raised[1].msg)
    /\ files[GoodPath].exists /\ ~files[GoodPath].valid

C8_PreviewWindow ==
    (/\ call.op \in PagedOps
     /\ fetched.ok
     /\ ~Truthy(call.file_path)
     /\ call.limit >= 0
     /\ call.offset >= 0) =>
        LET R == fetched.df.rows
            n == Min(call.limit, Max(0, Len(R) - call.offset))
        IN /\ ~result.isError
           /\ result.text.kind \in {"FoundTable", "DataTable", "NoFound", "NoData"}
           /\ result.text.kind \in {"NoFound", "NoData"} => R = <<>>
           /\ result.text.kind \in {"FoundTable", "DataTable"} =>
                 /\ result.text.total = Len(R)
                 /\ result.text.shown = n
                 /\ Len(result.text.table) = n
                 /\ n <= call.limit
                 /\ \A i \in 1..n : result.text.table[i] = R[call.offset + i]

\* C8, reached: a search over two rows with offset 1, limit 1 shows the second row alone.
C8_Witness ==
    /\ call.op = "search_series"
    /\ call.offset = 1 /\ call.limit = 1
    /\ fetched.ok /\ Len(fetched.df.rows) = 2
    /\ result.text.kind = "FoundTable"
    /\ result.text.total = 2
    /\ result.text.shown = 1
    /\ result.text.table = <<2>>

\* C9: a preview with no row to render is the sentence "No {noun} found.": no
\* header line and no table is rendered over zero rows, in any listing
\* operation, the source listing included.
C9_EmptyRowsGiveNoFound ==
    (Called /\ ~result.isError /\ result.text.kind \in {"FoundTable", "FoundAll"}) =>
        result.text.table # <<>>

\* C10: the records of every fetched table carry no raw date/time value, a
\* date/time index appears in them as the column `date`, and an export that
\* could open its file wrote it.
C10_RecordsCarryNoRawDate ==
    (Called /\ fetched.ok /\ fetched.table) =>
        LET records == df_to_records(fetched.df)
        IN /\ JsonSerializable(records)
           /\ fetched.df.index = "datetime" =>
                 \A i \in 1..Len(records) : "date" \in DOMAIN records[i]
           /\ \A i \in DOMAIN saves : saves[i].opened => saves[i].dumped

==============================================================================
